---------------------------- MODULE Spec2Model ----------------------------
(***************************************************************************)
(* Model of the mudata-explorer helpers:                                   *)
(*   apps/microbiome/load.py   _find_skiprows, run                         *)
(*   parsers/sourmash.py       parse_df                                    *)
(*   helpers/cirro.py          _cirro_login, load_from_cirro,              *)
(*                             save_to_cirro, _select_project,             *)
(*                             _select_dataset, _read_dataset              *)
(* Text is modelled as sequences of one-character strings, so that         *)
(* splitting and joining are computed character by character.              *)
(***************************************************************************)
EXTENDS Integers, Sequences, FiniteSets, TLC

VARIABLES
    \* ---- _find_skiprows (apps/microbiome/load.py)
    file,           \* content of the uploaded file, a sequence of characters
    sep,            \* the delimiter passed by _read_table
    sk_pc,          \* "call" | "returned" | "raised"
    skiprows        \* <<>> while there is no return value, <<i>> once i is returned

skVars == <<file, sep, sk_pc, skiprows>>

VARIABLES
    \* ---- sourmash.parse_df (parsers/sourmash.py)
    abund_in,       \* the table passed in: [index |-> taxa lineages, columns |-> samples]
    pd_pc,          \* "call" | "returned" | "assert_failed"
    abund,          \* the abundance table returned: [index |-> samples, columns |-> taxa]
    tax             \* the taxonomy table returned: [index |-> taxa, rows |-> one dict per taxon]

pdVars == <<abund_in, pd_pc, abund, tax>>

VARIABLES
    \* ---- _read_dataset called directly (helpers/cirro.py)
    rd_process,     \* dataset.process_id
    rd_check_only,  \* check_only
    rd_filter,      \* filter_process_ids: [given |-> FALSE] models None
    rd_pc,          \* "call" | "returned"
    rd_result,      \* "False" | "True" | "None" | "MuData"
    rd_readers      \* the readers called, in order

rdVars == <<rd_process, rd_check_only, rd_filter, rd_pc, rd_result, rd_readers>>

VARIABLES
    \* ---- one browser session of load_from_cirro / save_to_cirro (helpers/cirro.py)
    session_cirro,  \* st.session_state.get("Cirro") is set
    active_mdata,   \* get_mdata(full=True) is not None
    query_project,  \* st.query_params: {} without "project_id", else {its value}
    query_dataset,  \* st.query_params: {} without "dataset_id", else {its value}
    flow,           \* "none" | "load" | "save": the function this script run is in
    pg_pc,          \* position of the script run inside it
    filter_process_ids, \* load_from_cirro's argument
    show_link,      \* load_from_cirro's argument
    project,        \* "none" or the project _select_project returned
    listed,         \* _select_dataset: what project.list_datasets() returned
    datasets,       \* _select_dataset: the filtered, sorted list
    dataset,        \* <<>> for None, <<d>> for the dataset _select_dataset returned
    load_pressed,   \* the Load button
    mdata,          \* "unread" | "None" | "MuData": what _read_dataset returned
    reader_calls,   \* readers called in this script run, with their dataset
    selected_rows,  \* _select_dataset: selection["selection"]["rows"], <<>> or <<row>>
    name,           \* save_to_cirro: the text of the Name input, "" until entered
    log             \* the UI calls and effects of this script run, in order

sessVars == <<session_cirro, active_mdata, query_project, query_dataset>>
runVars == <<flow, pg_pc, filter_process_ids, show_link, project, listed, datasets,
             dataset, load_pressed, mdata, reader_calls, selected_rows, name, log>>
pgVars == <<sessVars, runVars>>

VARIABLES
    \* ---- _cirro_login and its thread _cirro_login_sub (helpers/cirro.py)
    lg_main,        \* position of the script thread in _cirro_login
    lg_thread,      \* position of cirro_login_thread in _cirro_login_sub
    auth_io,        \* the StringIO both threads hold: "" or the login prompt
    login_string,   \* _cirro_login's local
    container,      \* <<>> untouched, <<s>> after write(s), <<"emptied">> after empty()
    sess_auth_info, \* 'Cirro-auth_info' in st.session_state
    sess_client,    \* 'Cirro-client' in st.session_state
    sess_cirro,     \* 'Cirro' in st.session_state
    threads_started,\* threads started by the current _cirro_login call
    logins          \* _cirro_login calls so far

lgVars == <<lg_main, lg_thread, auth_io, login_string, container,
            sess_auth_info, sess_client, sess_cirro, threads_started, logins>>

vars == <<skVars, pdVars, rdVars, pgVars, lgVars>>

(***************************************************************************)
(* Bounds of the model                                                     *)
(***************************************************************************)
MaxFileLen == 7
MaxTotalFields == 8     \* lineage fields in one input table, all taxa together
MaxDatasets == 3        \* datasets project.list_datasets() returns
MaxLogins == 2          \* _cirro_login calls in one session

(***************************************************************************)
(* Text helpers: Python's str.split(sep), readlines()                      *)
(***************************************************************************)
Min(a, b) == IF a <= b THEN a ELSE b

\* Does sep occur in s at position i?
OccursAt(s, sub, i) ==
    /\ i + Len(sub) - 1 <= Len(s)
    /\ \A j \in 1..Len(sub) : s[i + j - 1] = sub[j]

\* str.find: the first position at which sub occurs in s, 0 when it does not.
Find(s, sub) ==
    LET hits == {i \in 1..Len(s) : OccursAt(s, sub, i)}
    IN  IF hits = {} THEN 0 ELSE CHOOSE i \in hits : \A j \in hits : i <= j

\* str.split(sep) for a non-empty sep: left to right, non-overlapping.
RECURSIVE Split(_, _)
Split(s, sub) ==
    LET k == Find(s, sub)
    IN  IF k = 0 THEN <<s>>
        ELSE <<SubSeq(s, 1, k - 1)>> \o Split(SubSeq(s, k + Len(sub), Len(s)), sub)

\* file.readlines(): each line keeps its newline; no line after a final newline.
RECURSIVE Readlines(_)
Readlines(f) ==
    LET k == Find(f, <<"\n">>)
    IN  IF f = <<>> THEN <<>>
        ELSE IF k = 0 THEN <<f>>
        ELSE <<SubSeq(f, 1, k)>> \o Readlines(SubSeq(f, k + 1, Len(f)))

(***************************************************************************)
(* _find_skiprows                                                          *)
(***************************************************************************)
FileAlphabet == {"x", ",", "\t", "\n"}
Delimiters == {",", "\t"}          \* the two delimiters _read_table passes
FileContents == UNION {[1..n -> FileAlphabet] : n \in 0..MaxFileLen}

\* num_fields = [len(line.decode().split(sep)) for line in lines]
NumFields(lines, d) == [i \in 1..Len(lines) |-> Len(Split(lines[i], <<d>>))]

\* num_fields.count(v)
Count(seq, v) == Cardinality({i \in 1..Len(seq) : seq[i] = v})

\* Iteration order of set(num_fields).  CPython stores a small int v in slot
\* v mod 8 of the set's table (hash(v) = v, eight slots until a fifth element
\* is added) and iterates the table slot by slot.
RECURSIVE SetOrder(_)
SetOrder(S) ==
    IF S = {} THEN <<>>
    ELSE LET v == CHOOSE a \in S : \A b \in S :
                      \/ a % 8 < b % 8
                      \/ (a % 8 = b % 8 /\ a <= b)
         IN  <<v>> \o SetOrder(S \ {v})

\* max(iterable, key=...): the first element, in iteration order, whose key is
\* not exceeded by any other.
MaxByKey(order, seq) ==
    LET best == CHOOSE i \in 1..Len(order) :
                    /\ \A j \in 1..Len(order) : Count(seq, order[j]) <= Count(seq, order[i])
                    /\ \A j \in 1..(i - 1) : Count(seq, order[j]) < Count(seq, order[i])
    IN  order[best]

\* A drawn tie-break a plausible variant would use: the tied count seen first in the file.
ModalFirstSeen(num_fields) ==
    LET top == {i \in 1..Len(num_fields) :
                  \A j \in 1..Len(num_fields) :
                     Count(num_fields, num_fields[j]) <= Count(num_fields, num_fields[i])}
    IN  num_fields[CHOOSE i \in top : \A j \in top : i <= j]

\* modal_num_fields = max(set(num_fields), key=num_fields.count)
ModalNumFields(num_fields) ==
    MaxByKey(SetOrder({num_fields[i] : i \in 1..Len(num_fields)}), num_fields)

\* for i, num in enumerate(num_fields): if num == modal_num_fields: return i
\* return 0
FirstRowWithLast(num_fields, modal) ==
    LET hits == {i \in 1..Len(num_fields) : num_fields[i] = modal}
    IN  IF hits = {} THEN 0 ELSE (CHOOSE i \in hits : \A j \in hits : j <= i) - 1

FirstRowWith(num_fields, modal) ==
    LET hits == {i \in 1..Len(num_fields) : num_fields[i] = modal}
    IN  IF hits = {} THEN 0 ELSE (CHOOSE i \in hits : \A j \in hits : i <= j) - 1

SkIdle ==
    /\ file = <<>>
    /\ sep = ","
    /\ sk_pc = "idle"
    /\ skiprows = <<>>

SkInit ==
    /\ file \in FileContents
    /\ sep \in Delimiters
    /\ sk_pc = "call"
    /\ skiprows = <<>>

\* max() of an empty set raises ValueError: a file without lines never reaches
\* the loop or the final return.
FindSkiprowsRaises ==
    /\ sk_pc = "call"
    /\ Readlines(file) = <<>>
    /\ sk_pc' = "raised"
    /\ UNCHANGED <<file, sep, skiprows>>
    /\ UNCHANGED <<pdVars, rdVars, pgVars, lgVars>>

FindSkiprowsReturns ==
    /\ sk_pc = "call"
    /\ Readlines(file) # <<>>
    /\ LET num_fields == NumFields(Readlines(file), sep)
       IN  skiprows' = <<FirstRowWith(num_fields, ModalNumFields(num_fields))>>
    /\ sk_pc' = "returned"
    /\ UNCHANGED <<file, sep>>
    /\ UNCHANGED <<pdVars, rdVars, pgVars, lgVars>>

SkNext == FindSkiprowsRaises \/ FindSkiprowsReturns

(***************************************************************************)
(* sourmash.parse_df                                                       *)
(***************************************************************************)
Ranks == <<"Kingdom", "Phylum", "Class", "Order", "Family", "Genus", "Species">>

Last(seq) == seq[Len(seq)]

\* The lineage fields the input tables are built from: a plain name and a
\* rank-prefixed one.
FieldVals == { <<"a", "b">>, <<"s", "_", "_", "c", "d">> }
SampleColumns == << <<"S", "1">> >>

\* The index column made of the given fields, in order: field i ends its
\* lineage where ends[i] holds (and the last field always does).
RECURSIVE TaxaIndexFrom(_, _, _, _)
TaxaIndexFrom(fields, ends, i, cur) ==
    IF i > Len(fields) THEN <<>>
    ELSE LET lineage == IF cur = <<>> THEN fields[i] ELSE cur \o <<";">> \o fields[i]
         IN  IF i = Len(fields) \/ ends[i]
             THEN <<lineage>> \o TaxaIndexFrom(fields, ends, i + 1, <<>>)
             ELSE TaxaIndexFrom(fields, ends, i + 1, lineage)

\* abund.T
Transpose(df) == [index |-> df.columns, columns |-> df.index]

\* A drawn variant of the row builder: the ranks zipped from Phylum on.
TaxRowShifted(cname) ==
    LET fields == Split(cname, <<";">>)
        n == Min(Len(Ranks) - 1, Len(fields))
    IN  [r \in {Ranks[k + 1] : k \in 1..n} |->
            fields[CHOOSE k \in 1..n : Ranks[k + 1] = r]]

\* dict(zip(["Kingdom", ..., "Species"], cname.split(";")))
TaxRow(cname) ==
    LET fields == Split(cname, <<";">>)
        n == Min(Len(Ranks), Len(fields))
    IN  [r \in {Ranks[k] : k \in 1..n} |->
            fields[CHOOSE k \in 1..n : Ranks[k] = r]]

\* val.split("__")[-1] if len(val) > 4 and val[1:].startswith("__") else val
CleanName(val) ==
    IF Len(val) > 4 /\ OccursAt(SubSeq(val, 2, Len(val)), <<"_", "_">>, 1)
    THEN Last(Split(val, <<"_", "_">>))
    ELSE val

\* name_map, after both comprehensions: {col: clean(col.split(";")[-1])}
NameMap(columns) ==
    [c \in {columns[i] : i \in 1..Len(columns)} |->
        CleanName(Last(Split(c, <<";">>)))]

\* DataFrame.rename with a dict: a label in the dict is replaced, any other kept.
RenameLabels(labels, name_map) ==
    [i \in 1..Len(labels) |->
        IF labels[i] \in DOMAIN name_map THEN name_map[labels[i]] ELSE labels[i]]

\* abund.rename(columns=name_map, inplace=True)
RenameColumns(df, name_map) ==
    [df EXCEPT !.columns = RenameLabels(df.columns, name_map)]

\* A drawn variant: the taxonomy is left with the full lineage strings.
RenameIndexSkipped(df, name_map) == df

\* tax.rename(index=name_map, inplace=True)
RenameIndex(df, name_map) ==
    [df EXCEPT !.index = RenameLabels(df.index, name_map)]

\* tax = pd.DataFrame([dict(zip(...)) for cname in abund.columns], index=abund.columns)
BuildTax(columns) ==
    [index |-> columns, rows |-> [i \in 1..Len(columns) |-> TaxRow(columns[i])]]

PdIdle ==
    /\ abund_in = [index |-> <<>>, columns |-> <<>>]
    /\ pd_pc = "idle"
    /\ abund = [index |-> <<>>, columns |-> <<>>]
    /\ tax = [index |-> <<>>, rows |-> <<>>]

PdInit ==
    /\ \E n \in 0..MaxTotalFields :
          \E fields \in [1..n -> FieldVals], ends \in [1..(n - 1) -> BOOLEAN] :
              abund_in = [index |-> TaxaIndexFrom(fields, ends, 1, <<>>),
                          columns |-> SampleColumns]
    /\ pd_pc = "call"
    /\ abund = [index |-> <<>>, columns |-> <<>>]
    /\ tax = [index |-> <<>>, rows |-> <<>>]

\* parse_df, from the transposition to the assertion and the return
ParseDf ==
    /\ pd_pc = "call"
    /\ LET t == Transpose(abund_in)
           name_map == NameMap(t.columns)
           a == RenameColumns(t, name_map)
           x == RenameIndex(BuildTax(t.columns), name_map)
       IN  /\ abund' = a
           /\ tax' = x
           /\ pd_pc' = IF Len(a.columns) = Len(x.index) THEN "returned"
                       ELSE "assert_failed"
    /\ UNCHANGED abund_in
    /\ UNCHANGED <<skVars, rdVars, pgVars, lgVars>>

PdNext == ParseDf


(***************************************************************************)
(* _read_dataset                                                           *)
(***************************************************************************)
DifferentialAbundanceIds ==
    { "differential-abundance-metaphlan", "differential-abundance-ampliseq",
      "differential-abundance-CMD", "differential-abundance-gig-map-align-reads",
      "differential-abundance-table", "differential-abundance-sourmash" }

\* the allowlist run() of the microbiome load page passes
MicrobiomeProcessIds ==
    { "ingest_biom", "process-nf-core-ampliseq-2-4-0", "curated_metagenomic_data",
      "process-hutch-metaphlan-paired-1-0", "hutch-gig-map-align-pangenome-1-0",
      "hutch-sourmash-tax" }

\* process ids of datasets a project may hold: those named in cirro.py and
\* two it does not know
ProcessIds ==
    {"mudata-h5mu"} \cup MicrobiomeProcessIds \cup DifferentialAbundanceIds
        \cup {"differential-abundance-other", "unknown-process"}

NoFilter == [given |-> FALSE, ids |-> {}]
Allow(ids) == [given |-> TRUE, ids |-> ids]

\* A drawn variant: every dataset is taken for a MuData dataset.
DispatchAllMuData(process_id, check_only) ==
    IF check_only THEN [kind |-> "True", reader |-> "none"]
    ELSE [kind |-> "read", reader |-> "mudata"]

\* The if/elif chain of _read_dataset below the allowlist test: what is
\* returned under check_only, which reader is called otherwise.
Dispatch(process_id, check_only) ==
    LET to(reader) == IF check_only THEN [kind |-> "True", reader |-> "none"]
                      ELSE [kind |-> "read", reader |-> reader]
    IN  IF process_id = "mudata-h5mu" THEN to("mudata")
        ELSE IF process_id = "process-nf-core-ampliseq-2-4-0" THEN to("ampliseq")
        ELSE IF process_id = "ingest_biom" THEN to("biom")
        ELSE IF process_id = "curated_metagenomic_data" THEN to("curatedMetagenomicData")
        ELSE IF process_id \in DifferentialAbundanceIds THEN to("differential_abundance")
        ELSE IF process_id = "process-hutch-metaphlan-paired-1-0" THEN to("metaphlan")
        ELSE IF process_id = "hutch-sourmash-tax" THEN to("sourmash")
        ELSE IF process_id = "hutch-gig-map-align-pangenome-1-0" THEN to("gig_map")
        ELSE IF check_only THEN [kind |-> "False", reader |-> "none"]
        ELSE [kind |-> "None", reader |-> "none"]

\* A drawn variant: the allowlist is not consulted at all.
ReadDatasetNoFilter(process_id, check_only, filter) ==
    Dispatch(process_id, check_only)

\* _read_dataset: kind "read" stands for `return <reader>.read(dataset)`.
ReadDataset(process_id, check_only, filter) ==
    IF filter.given /\ process_id \notin filter.ids
    THEN IF check_only THEN [kind |-> "False", reader |-> "none"]
         ELSE [kind |-> "None", reader |-> "none"]
    ELSE Dispatch(process_id, check_only)

\* what a reader's read(dataset) returns: Optional[MuData]
ReaderResults == {"None", "MuData"}

RdIdle ==
    /\ rd_process = "unknown-process"
    /\ rd_check_only = TRUE
    /\ rd_filter = NoFilter
    /\ rd_pc = "idle"
    /\ rd_result = "None"
    /\ rd_readers = <<>>

RdInit ==
    /\ rd_process \in ProcessIds
    /\ rd_check_only \in BOOLEAN
    /\ rd_filter \in {NoFilter, Allow(MicrobiomeProcessIds), Allow({}),
                      Allow({"mudata-h5mu", "unknown-process"})}
    /\ rd_pc = "call"
    /\ rd_result = "None"
    /\ rd_readers = <<>>

\* one call of _read_dataset(dataset, check_only, filter_process_ids)
ReadDatasetCall ==
    /\ rd_pc = "call"
    /\ LET r == ReadDataset(rd_process, rd_check_only, rd_filter)
       IN  IF r.kind = "read"
           THEN /\ rd_readers' = Append(rd_readers, r.reader)
                /\ rd_result' \in ReaderResults
           ELSE /\ rd_readers' = rd_readers
                /\ rd_result' = r.kind
    /\ rd_pc' = "returned"
    /\ UNCHANGED <<rd_process, rd_check_only, rd_filter>>
    /\ UNCHANGED <<skVars, pdVars, pgVars, lgVars>>

(***************************************************************************)
(* load_from_cirro, save_to_cirro, _select_project, _select_dataset        *)
(***************************************************************************)
Projects == {"p1"}                 \* what portal.list_projects() returns
CreatedAts == {1, 2}
\* the datasets of a project: ids are positions in the list
DatasetProcessIds ==
    {"mudata-h5mu", "hutch-sourmash-tax", "ingest_biom",
     "differential-abundance-sourmash", "differential-abundance-other",
     "unknown-process"}
DatasetLists ==
    UNION { {ds \in [1..n -> [id : 0..MaxDatasets, process_id : DatasetProcessIds,
                              created_at : CreatedAts]] :
                \A i \in 1..n : ds[i].id = i}
            : n \in 0..MaxDatasets }

\* the two ways load_from_cirro is called: by run() of the microbiome load
\* page, and with its defaults
LoadCallers ==
    { [filter |-> Allow(MicrobiomeProcessIds), show_link |-> FALSE],
      [filter |-> NoFilter, show_link |-> TRUE] }

\* A drawn variant: the allowlist is not handed to _read_dataset.
FilterDatasetsConfigured(ds, filter) ==
    SelectSeq(ds, LAMBDA d : ReadDataset(d.process_id, TRUE, NoFilter).kind = "True")

\* [d for d in datasets if _read_dataset(d, check_only=True, filter_process_ids=...)]
Passes(d, filter) == ReadDataset(d.process_id, TRUE, filter).kind = "True"
FilterDatasets(ds, filter) == SelectSeq(ds, LAMBDA d : Passes(d, filter))

\* datasets.sort(key=lambda d: d.created_at, reverse=True): stable
RECURSIVE SortNewestFirst(_)
SortNewestFirst(ds) ==
    IF ds = <<>> THEN <<>>
    ELSE LET k == CHOOSE i \in 1..Len(ds) :
                    /\ \A j \in 1..Len(ds) : ds[j].created_at <= ds[i].created_at
                    /\ \A j \in 1..(i - 1) : ds[j].created_at < ds[i].created_at
         IN  <<ds[k]>> \o SortNewestFirst(SubSeq(ds, 1, k - 1) \o SubSeq(ds, k + 1, Len(ds)))

RunReset ==
    /\ flow = "none"
    /\ filter_process_ids = NoFilter
    /\ show_link = FALSE
    /\ project = "none"
    /\ listed = <<>>
    /\ datasets = <<>>
    /\ dataset = <<>>
    /\ load_pressed = FALSE
    /\ mdata = "unread"
    /\ reader_calls = <<>>
    /\ selected_rows = <<>>
    /\ name = ""
    /\ log = <<>>

PgIdle ==
    /\ session_cirro = FALSE
    /\ active_mdata = FALSE
    /\ query_project = {}
    /\ query_dataset = {}
    /\ pg_pc = "off"
    /\ RunReset

PgInit ==
    /\ session_cirro = FALSE
    /\ active_mdata = FALSE
    /\ query_project \in {{}, {"p1"}, {"pX"}}
    /\ query_dataset \in {{}} \cup {{i} : i \in 0..MaxDatasets}
    /\ pg_pc = "idle"
    /\ RunReset

Finish(pc, events) ==
    /\ pg_pc' = pc
    /\ log' = log \o events

\* run() / a page calls load_from_cirro(filter_process_ids, show_link)
StartLoad ==
    /\ pg_pc = "idle"
    /\ \E c \in LoadCallers :
          /\ filter_process_ids' = c.filter
          /\ show_link' = c.show_link
    /\ flow' = "load"
    /\ pg_pc' = "client"
    /\ UNCHANGED <<project, listed, datasets, dataset, load_pressed, mdata, reader_calls, log>>
    /\ UNCHANGED <<sessVars, selected_rows, name, skVars, pdVars, rdVars, lgVars>>

\* a page calls save_to_cirro()
StartSave ==
    /\ pg_pc = "idle"
    /\ flow' = "save"
    /\ pg_pc' = "client"
    /\ UNCHANGED <<filter_process_ids, show_link, project, listed, datasets, dataset,
                   load_pressed, mdata, reader_calls, log>>
    /\ UNCHANGED <<sessVars, selected_rows, name, skVars, pdVars, rdVars, lgVars>>

\* if not st.session_state.get("Cirro"): setup_cirro_client(); return
\* The login it may start leaves the client set or not (see the login model).
NoClient ==
    /\ pg_pc = "client"
    /\ ~session_cirro
    /\ session_cirro' \in BOOLEAN
    /\ Finish("done", <<"setup_cirro_client">>)
    /\ UNCHANGED <<active_mdata, query_project, query_dataset>>
    /\ UNCHANGED <<flow, filter_process_ids, show_link, project, listed, datasets, dataset,
                   load_pressed, mdata, reader_calls>>
    /\ UNCHANGED <<selected_rows, name, skVars, pdVars, rdVars, lgVars>>

HasClient ==
    /\ pg_pc = "client"
    /\ session_cirro
    /\ pg_pc' = "project"
    /\ UNCHANGED <<flow, filter_process_ids, show_link, project, listed, datasets, dataset,
                   load_pressed, mdata, reader_calls, log>>
    /\ UNCHANGED <<sessVars, selected_rows, name, skVars, pdVars, rdVars, lgVars>>

\* _select_project: portal.list_projects() raises; the error is shown and
\* util.clear_cirro_client() ends the script run, with the client dropped or not.
ListProjectsFails ==
    /\ pg_pc = "project"
    /\ session_cirro' \in BOOLEAN
    /\ Finish("aborted", <<"st.exception">>)
    /\ UNCHANGED <<active_mdata, query_project, query_dataset>>
    /\ UNCHANGED <<flow, filter_process_ids, show_link, project, listed, datasets, dataset,
                   load_pressed, mdata, reader_calls>>
    /\ UNCHANGED <<selected_rows, name, skVars, pdVars, rdVars, lgVars>>

\* _select_project, the list of projects obtained: from the query string, or
\* from the select box (choice "none": nothing selected)
SelectProject ==
    /\ pg_pc = "project"
    /\ \E choice \in Projects \cup {"none"} :
          LET next == IF flow = "load" THEN "dataset" ELSE "name"
          IN  IF query_project # {}
              THEN IF query_project \subseteq Projects
                   THEN /\ project' = CHOOSE p \in Projects : p \in query_project
                        /\ Finish(next, <<>>)
                   ELSE /\ project' = "none"
                        /\ Finish("aborted", <<"ValueError">>)
              ELSE /\ project' = choice
                   /\ Finish(IF choice = "none" THEN "done" ELSE next, <<"selectbox">>)
    /\ UNCHANGED <<flow, filter_process_ids, show_link, listed, datasets, dataset,
                   load_pressed, mdata, reader_calls>>
    /\ UNCHANGED <<sessVars, selected_rows, name, skVars, pdVars, rdVars, lgVars>>

\* _select_dataset: project.list_datasets() raises
ListDatasetsFails ==
    /\ pg_pc = "dataset"
    /\ session_cirro' \in BOOLEAN
    /\ Finish("aborted", <<"st.exception">>)
    /\ UNCHANGED <<active_mdata, query_project, query_dataset>>
    /\ UNCHANGED <<flow, filter_process_ids, show_link, project, listed, datasets, dataset,
                   load_pressed, mdata, reader_calls>>
    /\ UNCHANGED <<selected_rows, name, skVars, pdVars, rdVars, lgVars>>

\* _select_dataset, the list ds obtained: filter, sort, then the query string
\* or the selection table (row 0: no row selected; rows count from 1 here,
\* from 0 in the code)
SelectDataset ==
    /\ pg_pc = "dataset"
    /\ \E ds \in DatasetLists :
          LET kept == SortNewestFirst(FilterDatasets(ds, filter_process_ids))
              hits == {i \in 1..Len(kept) : kept[i].id \in query_dataset}
          IN  /\ listed' = ds
              /\ datasets' = kept
              /\ IF query_dataset # {}
                 THEN /\ selected_rows' = <<>>
                      /\ IF hits # {}
                         THEN /\ dataset' = <<kept[CHOOSE i \in hits : \A j \in hits : i <= j]>>
                              /\ Finish("link", <<>>)
                         ELSE /\ dataset' = <<>>
                              /\ Finish("aborted", <<"ValueError">>)
                 ELSE IF kept # <<>>
                      THEN \E row \in 0..Len(kept) :
                              /\ selected_rows' = IF row = 0 THEN <<>> ELSE <<row>>
                              /\ dataset' = IF row = 0 THEN <<>> ELSE <<kept[row]>>
                              /\ Finish(IF row = 0 THEN "done" ELSE "link", <<"table">>)
                      ELSE /\ selected_rows' = <<>>
                           /\ dataset' = <<>>
                           /\ Finish("done", <<"No datasets available">>)
    /\ UNCHANGED <<flow, filter_process_ids, show_link, project,
                   load_pressed, mdata, reader_calls>>
    /\ UNCHANGED <<sessVars, name, skVars, pdVars, rdVars, lgVars>>

\* A drawn variant: the dataset is read whether or not Load was pressed.
LinkOrLoadUnconditional ==
    /\ pg_pc = "link"
    /\ IF show_link /\ query_dataset # {dataset[1].id}
       THEN \E pressed \in BOOLEAN :
               /\ load_pressed' = pressed
               /\ Finish("read", <<"link", "button">>)
       ELSE /\ load_pressed' = FALSE
            /\ Finish("read", <<>>)
    /\ UNCHANGED <<flow, filter_process_ids, show_link, project, listed, datasets, dataset,
                   mdata, reader_calls>>
    /\ UNCHANGED <<sessVars, selected_rows, name, skVars, pdVars, rdVars, lgVars>>

\* load_from_cirro: the link and the Load button, shown unless the dataset was
\* named by the query string
LinkOrLoad ==
    /\ pg_pc = "link"
    /\ IF show_link /\ query_dataset # {dataset[1].id}
       THEN \E pressed \in BOOLEAN :
               /\ load_pressed' = pressed
               /\ Finish(IF pressed THEN "read" ELSE "done", <<"link", "button">>)
       ELSE /\ load_pressed' = FALSE
            /\ Finish("read", <<>>)
    /\ UNCHANGED <<flow, filter_process_ids, show_link, project, listed, datasets, dataset,
                   mdata, reader_calls>>
    /\ UNCHANGED <<sessVars, selected_rows, name, skVars, pdVars, rdVars, lgVars>>

\* load_from_cirro: mdata = _read_dataset(dataset); if mdata is None: return
ReadSelected ==
    /\ pg_pc = "read"
    /\ LET r == ReadDataset(dataset[1].process_id, FALSE, NoFilter)
       IN  IF r.kind = "read"
           THEN /\ reader_calls' = Append(reader_calls,
                                          [reader |-> r.reader, dataset |-> dataset[1]])
                /\ mdata' \in ReaderResults
           ELSE /\ reader_calls' = reader_calls
                /\ mdata' = "None"
    /\ pg_pc' = IF mdata' = "None" THEN "done" ELSE "set"
    /\ log' = Append(log, "read")
    /\ UNCHANGED <<flow, filter_process_ids, show_link, project, listed, datasets, dataset,
                   load_pressed>>
    /\ UNCHANGED <<sessVars, selected_rows, name, skVars, pdVars, rdVars, lgVars>>

\* load_from_cirro: get_dat_hash, hydrate_uns, set_mdata, set_mdata_hash, switch_page
SetAndSwitch ==
    /\ pg_pc = "set"
    /\ active_mdata' = TRUE
    /\ Finish("switched", <<"set_mdata", "set_mdata_hash", "switch_page">>)
    /\ UNCHANGED <<session_cirro, query_project, query_dataset>>
    /\ UNCHANGED <<flow, filter_process_ids, show_link, project, listed, datasets, dataset,
                   load_pressed, mdata, reader_calls>>
    /\ UNCHANGED <<selected_rows, name, skVars, pdVars, rdVars, lgVars>>

\* save_to_cirro: what st.text_input("Name") can return
Names == {"", "my dataset"}

\* A drawn variant: the empty name is not rejected.
NameInputUnchecked ==
    /\ pg_pc = "name"
    /\ \E n \in Names :
          /\ name' = n
          /\ Finish("button", <<"text_input", "text_area">>)
    /\ UNCHANGED <<flow, filter_process_ids, show_link, project, listed, datasets, dataset,
                   load_pressed, mdata, reader_calls>>
    /\ UNCHANGED <<sessVars, selected_rows, skVars, pdVars, rdVars, lgVars>>

\* save_to_cirro: the name and description inputs; an empty name is an error
NameInput ==
    /\ pg_pc = "name"
    /\ \E n \in Names :
          /\ name' = n
          /\ IF n # "" THEN Finish("button", <<"text_input", "text_area">>)
             ELSE Finish("done", <<"text_input", "text_area", "error: Name is required">>)
    /\ UNCHANGED <<flow, filter_process_ids, show_link, project, listed, datasets, dataset,
                   load_pressed, mdata, reader_calls>>
    /\ UNCHANGED <<sessVars, selected_rows, skVars, pdVars, rdVars, lgVars>>

\* save_to_cirro: the Save button, then get_mdata
SaveButton ==
    /\ pg_pc = "button"
    /\ \E pressed \in BOOLEAN :
          IF ~pressed THEN Finish("done", <<"button">>)
          ELSE IF ~active_mdata
               THEN Finish("done", <<"button: pressed", "error: No dataset to save">>)
               ELSE Finish("upload", <<"button: pressed">>)
    /\ UNCHANGED <<flow, filter_process_ids, show_link, project, listed, datasets, dataset,
                   load_pressed, mdata, reader_calls>>
    /\ UNCHANGED <<sessVars, selected_rows, name, skVars, pdVars, rdVars, lgVars>>

\* A drawn variant: the except block does not return.
WriteAndUploadFallsThrough ==
    /\ pg_pc = "upload"
    /\ \E raises \in BOOLEAN :
          IF raises
          THEN Finish("done", <<"file_written", "upload_dataset", "raised",
                                "st.exception", "wrote", "permalink">>)
          ELSE Finish("done", <<"file_written", "upload_dataset", "returned",
                                "wrote", "permalink">>)
    /\ UNCHANGED <<flow, filter_process_ids, show_link, project, listed, datasets, dataset,
                   load_pressed, mdata, reader_calls>>
    /\ UNCHANGED <<sessVars, selected_rows, name, skVars, pdVars, rdVars, lgVars>>

\* save_to_cirro: the temporary file, project.upload_dataset in its try block,
\* and what follows it
WriteAndUpload ==
    /\ pg_pc = "upload"
    /\ \E raises \in BOOLEAN :
          IF raises
          THEN Finish("done", <<"file_written", "upload_dataset", "raised",
                                "st.exception">>)
          ELSE Finish("done", <<"file_written", "upload_dataset", "returned",
                                "wrote", "permalink">>)
    /\ UNCHANGED <<flow, filter_process_ids, show_link, project, listed, datasets, dataset,
                   load_pressed, mdata, reader_calls>>
    /\ UNCHANGED <<sessVars, selected_rows, name, skVars, pdVars, rdVars, lgVars>>

\* the script run is over; the next one starts from the session state
Rerun ==
    /\ pg_pc \in {"done", "aborted", "switched"}
    /\ pg_pc' = "idle"
    /\ flow' = "none"
    /\ filter_process_ids' = NoFilter
    /\ show_link' = FALSE
    /\ project' = "none"
    /\ listed' = <<>>
    /\ datasets' = <<>>
    /\ dataset' = <<>>
    /\ load_pressed' = FALSE
    /\ mdata' = "unread"
    /\ reader_calls' = <<>>
    /\ selected_rows' = <<>>
    /\ name' = ""
    /\ log' = <<>>
    /\ UNCHANGED <<sessVars, skVars, pdVars, rdVars, lgVars>>

PgNext ==
    \/ StartLoad \/ StartSave \/ NoClient \/ HasClient
    \/ ListProjectsFails \/ SelectProject
    \/ ListDatasetsFails \/ SelectDataset
    \/ LinkOrLoad \/ ReadSelected \/ SetAndSwitch
    \/ NameInput \/ SaveButton \/ WriteAndUpload
    \/ Rerun


(***************************************************************************)
(* _cirro_login and _cirro_login_sub                                       *)
(***************************************************************************)
LoginPrompt == "login-url"

\* cirro_login_thread.is_alive()
ThreadAlive == lg_thread \notin {"not_started", "finished", "failed"}

\* A drawn variant: the join does not wait for the thread.
JoinNoWait == TRUE

\* cirro_login_thread.join() returns once the thread has ended
JoinReturns == ~ThreadAlive

LgIdle ==
    /\ lg_main = "off"
    /\ lg_thread = "not_started"
    /\ auth_io = ""
    /\ login_string = ""
    /\ container = <<>>
    /\ sess_auth_info = FALSE
    /\ sess_client = FALSE
    /\ sess_cirro = FALSE
    /\ threads_started = 0
    /\ logins = 0

LgInit ==
    /\ lg_main = "idle"
    /\ lg_thread = "not_started"
    /\ auth_io = ""
    /\ login_string = ""
    /\ container = <<>>
    /\ sess_auth_info = FALSE
    /\ sess_client = FALSE
    /\ sess_cirro = FALSE
    /\ threads_started = 0
    /\ logins = 0

LgOthers == UNCHANGED <<skVars, pdVars, rdVars, pgVars>>

\* setup_cirro_client, a domain given, calls _cirro_login, which makes the
\* StringIO and the thread (its callers do so only while 'Cirro' is unset)
CallCirroLogin ==
    /\ lg_main = "idle"
    /\ ~sess_cirro
    /\ logins < MaxLogins
    /\ logins' = logins + 1
    /\ lg_main' = "start"
    /\ lg_thread' = "not_started"
    /\ auth_io' = ""
    /\ login_string' = ""
    /\ container' = <<>>
    /\ threads_started' = 0
    /\ UNCHANGED <<sess_auth_info, sess_client, sess_cirro>>
    /\ LgOthers

\* cirro_login_thread.start()
StartThread ==
    /\ lg_main = "start"
    /\ lg_thread' = "config"
    /\ threads_started' = threads_started + 1
    /\ lg_main' = "getvalue"
    /\ UNCHANGED <<auth_io, login_string, container, sess_auth_info, sess_client,
                   sess_cirro, logins>>
    /\ LgOthers

\* login_string = auth_io.getvalue(), before the loop and in its body after sleep(1)
GetValue ==
    /\ lg_main = "getvalue"
    /\ login_string' = auth_io
    /\ lg_main' = "while"
    /\ UNCHANGED <<lg_thread, auth_io, container, sess_auth_info, sess_client,
                   sess_cirro, threads_started, logins>>
    /\ LgOthers

\* while len(login_string) == 0 and cirro_login_thread.is_alive():
WhileTest ==
    /\ lg_main = "while"
    /\ lg_main' = IF login_string = "" /\ ThreadAlive THEN "getvalue" ELSE "write"
    /\ UNCHANGED <<lg_thread, auth_io, login_string, container, sess_auth_info,
                   sess_client, sess_cirro, threads_started, logins>>
    /\ LgOthers

\* container.write(login_string)
ContainerWrite ==
    /\ lg_main = "write"
    /\ container' = <<login_string>>
    /\ lg_main' = "join"
    /\ UNCHANGED <<lg_thread, auth_io, login_string, sess_auth_info, sess_client,
                   sess_cirro, threads_started, logins>>
    /\ LgOthers

\* cirro_login_thread.join(); container.empty()
JoinAndEmpty ==
    /\ lg_main = "join"
    /\ JoinReturns
    /\ container' = <<"emptied">>
    /\ lg_main' = "rerun"
    /\ UNCHANGED <<lg_thread, auth_io, login_string, sess_auth_info, sess_client,
                   sess_cirro, threads_started, logins>>
    /\ LgOthers

\* st.rerun(): this script run ends and the next one starts
StRerun ==
    /\ lg_main = "rerun"
    /\ lg_main' = "idle"
    /\ UNCHANGED <<lg_thread, auth_io, login_string, container, sess_auth_info,
                   sess_client, sess_cirro, threads_started, logins>>
    /\ LgOthers

\* _cirro_login_sub: app_config = AppConfig(base_url=base_url)
ThreadAppConfig ==
    /\ lg_thread = "config"
    /\ lg_thread' = "auth"
    /\ UNCHANGED <<lg_main, auth_io, login_string, container, sess_auth_info,
                   sess_client, sess_cirro, threads_started, logins>>
    /\ LgOthers

\* DeviceCodeAuth(..., auth_io=auth_io) prints the login prompt to auth_io
ThreadPrompt ==
    /\ lg_thread = "auth"
    /\ auth_io' = LoginPrompt
    /\ lg_thread' = "authorize"
    /\ UNCHANGED <<lg_main, login_string, container, sess_auth_info, sess_client,
                   sess_cirro, threads_started, logins>>
    /\ LgOthers

\* DeviceCodeAuth returns once the user has authorized:
\* st.session_state['Cirro-auth_info'] = ...
ThreadAuthInfo ==
    /\ lg_thread = "authorize"
    /\ sess_auth_info' = TRUE
    /\ lg_thread' = "client"
    /\ UNCHANGED <<lg_main, auth_io, login_string, container, sess_client,
                   sess_cirro, threads_started, logins>>
    /\ LgOthers

\* st.session_state['Cirro-client'] = CirroApi(...)
ThreadClient ==
    /\ lg_thread = "client"
    /\ sess_client' = TRUE
    /\ lg_thread' = "portal"
    /\ UNCHANGED <<lg_main, auth_io, login_string, container, sess_auth_info,
                   sess_cirro, threads_started, logins>>
    /\ LgOthers

\* st.session_state['Cirro'] = DataPortal(...); the thread ends
ThreadPortal ==
    /\ lg_thread = "portal"
    /\ sess_cirro' = TRUE
    /\ lg_thread' = "finished"
    /\ UNCHANGED <<lg_main, auth_io, login_string, container, sess_auth_info,
                   sess_client, threads_started, logins>>
    /\ LgOthers

\* any of the constructors raises: the thread ends with the exception
ThreadRaises ==
    /\ lg_thread \in {"config", "auth", "authorize", "client", "portal"}
    /\ lg_thread' = "failed"
    /\ UNCHANGED <<lg_main, auth_io, login_string, container, sess_auth_info,
                   sess_client, sess_cirro, threads_started, logins>>
    /\ LgOthers

LgMain ==
    \/ CallCirroLogin \/ StartThread \/ GetValue \/ WhileTest
    \/ ContainerWrite \/ JoinAndEmpty \/ StRerun
LgThread ==
    \/ ThreadAppConfig \/ ThreadPrompt \/ ThreadAuthInfo \/ ThreadClient
    \/ ThreadPortal \/ ThreadRaises
LgNext == LgMain \/ LgThread

(***************************************************************************)
(* Specifications                                                          *)
(***************************************************************************)
\* _find_skiprows applied to every file content and delimiter of the bounds
InitSkiprows == SkInit /\ PdIdle /\ RdIdle /\ PgIdle /\ LgIdle
SpecSkiprows == InitSkiprows /\ [][SkNext]_vars

\* cirro.py: either _read_dataset called once with any arguments, or a browser
\* session of script runs through load_from_cirro and save_to_cirro
Init ==
    /\ SkIdle /\ PdIdle /\ LgIdle
    /\ \/ RdInit /\ PgIdle
       \/ PgInit /\ RdIdle
Next == ReadDatasetCall \/ PgNext
Spec == Init /\ [][Next]_vars

\* _cirro_login interleaved with the thread it starts
InitLogin == LgInit /\ SkIdle /\ PdIdle /\ RdIdle /\ PgIdle
SpecLogin == InitLogin /\ [][LgNext]_vars

\* parse_df applied to every input table of the bounds
InitParseDf == PdInit /\ SkIdle /\ RdIdle /\ PgIdle /\ LgIdle
SpecParseDf == InitParseDf /\ [][PdNext]_vars

(***************************************************************************)
(* Claims about _find_skiprows                                             *)
(***************************************************************************)
\* The field counts of the lines of the file, stated without Split: a line
\* has one field more than it has delimiters.
SkCounts ==
    LET lines == Readlines(file)
    IN  [i \in 1..Len(lines) |->
            1 + Cardinality({j \in 1..Len(lines[i]) : lines[i][j] = sep})]
SkFreq(counts, c) == Cardinality({i \in 1..Len(counts) : counts[i] = c})
\* the field counts that are most common (several when tied)
SkTied(counts) ==
    LET freq == [i \in 1..Len(counts) |-> SkFreq(counts, counts[i])]
    IN  {counts[k] : k \in {i \in 1..Len(counts) :
                              \A j \in 1..Len(counts) : freq[j] <= freq[i]}}
\* the first line whose field count is in C
SkFirstLineOf(counts, C) ==
    CHOOSE i \in 1..Len(counts) :
        /\ counts[i] \in C
        /\ \A j \in 1..(i - 1) : counts[j] \notin C

\* C1: for every non-empty sequence of lines and every delimiter,
\* _find_skiprows returns the smallest index i such that the field count of
\* line i is the modal one: a count no other count is more common than, and
\* which no earlier line has.
C1_FirstModalRow ==
    LET counts == SkCounts
    IN  (sk_pc \notin {"idle", "call"} /\ Len(counts) > 0) =>
            /\ sk_pc = "returned"
            /\ Len(skiprows) = 1
            /\ skiprows[1] + 1 \in 1..Len(counts)
            /\ counts[skiprows[1] + 1] \in SkTied(counts)
            /\ \A j \in 1..skiprows[1] : counts[j] # counts[skiprows[1] + 1]

\* C1 witness: a file whose first lines are not of the modal width, so that a
\* positive number of rows is skipped.
C1_Witness ==
    LET counts == SkCounts
    IN  /\ sk_pc = "returned"
        /\ Len(counts) >= 3
        /\ skiprows[1] >= 1
        /\ Cardinality(SkTied(counts)) = 1

\* C2 as written: when several field counts are equally the most common, the
\* tie is broken by first occurrence, so the returned index is the earliest
\* line carrying any of the tied counts.
C2_TieFirstOccurrence ==
    LET counts == SkCounts
        tied == SkTied(counts)
    IN  (sk_pc = "returned" /\ Cardinality(tied) >= 2) =>
            skiprows = <<SkFirstLineOf(counts, tied) - 1>>

\* C2 amended: when several field counts (all below 8) are equally the most
\* common, the modal count used is the tied count that comes first in the
\* iteration order of set(num_fields), which is the numerically smallest tied
\* count, and the returned index is the first line carrying that count.
C2_TieSetOrder ==
    LET counts == SkCounts
        tied == SkTied(counts)
    IN  (sk_pc = "returned" /\ Cardinality(tied) >= 2 /\ \A c \in tied : c < 8) =>
            LET least == CHOOSE c \in tied : \A d \in tied : c <= d
            IN  skiprows = <<SkFirstLineOf(counts, {least}) - 1>>

\* C2 witness: a tie in which the smallest tied count is not the one seen first.
C2_Witness ==
    LET counts == SkCounts
        tied == SkTied(counts)
    IN  /\ sk_pc = "returned"
        /\ Cardinality(tied) >= 2
        /\ counts[1] \in tied
        /\ skiprows[1] >= 1

\* C3 as written: _find_skiprows defaults to 0; for a file with no lines it
\* returns 0 rather than ending in an error.
C3_DefaultsToZero ==
    (sk_pc \notin {"idle", "call"} /\ Readlines(file) = <<>>) =>
        (sk_pc = "returned" /\ skiprows = <<0>>)

(***************************************************************************)
(* Claims about sourmash.parse_df                                          *)
(***************************************************************************)
\* The k-th semicolon-separated field of s, stated from the positions of the
\* semicolons rather than with Split.
SemiAt(s) == {i \in 1..Len(s) : s[i] = ";"}
NthSemi(s, k) == CHOOSE i \in SemiAt(s) : Cardinality({j \in SemiAt(s) : j <= i}) = k
KthField(s, k) ==
    LET n == Cardinality(SemiAt(s)) + 1
        from == IF k = 1 THEN 1 ELSE NthSemi(s, k - 1) + 1
        to == IF k = n THEN Len(s) ELSE NthSemi(s, k) - 1
    IN  SubSeq(s, from, to)

\* C4: parse_df builds one taxonomy row per taxon of the input table, in which
\* the k-th semicolon-separated field of the lineage is the value of the k-th
\* rank: a lineage of n fields fills exactly the first min(n, 7) ranks in
\* order, leaves the other ranks missing and drops the fields past the seventh.
C4_RanksFromFields ==
    pd_pc = "returned" =>
        /\ Len(tax.rows) = Len(abund_in.index)
        /\ \A t \in 1..Len(abund_in.index) :
              LET s == abund_in.index[t]
                  n == Cardinality(SemiAt(s)) + 1
              IN  /\ DOMAIN tax.rows[t] = {Ranks[k] : k \in 1..Min(n, 7)}
                  /\ \A k \in 1..Min(n, 7) : tax.rows[t][Ranks[k]] = KthField(s, k)

\* C4 witness: a parsed table holding a lineage of more than seven fields.
C4_Witness ==
    /\ pd_pc = "returned"
    /\ \E t \in 1..Len(abund_in.index) : Cardinality(SemiAt(abund_in.index[t])) >= 7
    /\ \E t \in 1..Len(tax.rows) : "Species" \in DOMAIN tax.rows[t]

\* C5: parse_df returns an abundance table and a taxonomy table whose taxon
\* labels agree: the abundance column labels are the taxonomy row labels after
\* the renaming, the counts are equal, and the assertion never fails.
C5_TaxaLabelsAgree ==
    pd_pc \notin {"idle", "call"} =>
        /\ pd_pc = "returned"
        /\ abund.columns = tax.index
        /\ Len(abund.columns) = Len(tax.rows)
        /\ Len(abund.columns) = Len(abund_in.index)

\* C5 witness: a table of two taxa, one of them renamed by the clean-up of a
\* rank prefix.
C5_Witness ==
    /\ pd_pc = "returned"
    /\ Len(abund.columns) >= 2
    /\ \E t \in 1..Len(abund.columns) :
          /\ abund.columns[t] # abund_in.index[t]
          /\ abund.columns[t] = <<"c", "d">>

(***************************************************************************)
(* Claims about _read_dataset, load_from_cirro and save_to_cirro           *)
(***************************************************************************)
Occurrences(seq, e) == Cardinality({i \in 1..Len(seq) : seq[i] = e})
Logged(e) == \E i \in 1..Len(log) : log[i] = e
Before(e1, e2) ==
    \A j \in 1..Len(log) : log[j] = e2 => \E i \in 1..(j - 1) : log[i] = e1

\* C6: with filter_process_ids given, _read_dataset neither accepts nor reads a
\* dataset whose process_id is not in the list: it returns False under
\* check_only and None otherwise and calls no reader; so a script run of
\* load_from_cirro with an allowlist (the microbiome load page) offers, selects
\* and reads only datasets whose process is in it, never a 'mudata-h5mu' or a
\* 'differential-abundance-*' one.
C6_AllowlistExcludes ==
    /\ (rd_pc = "returned" /\ rd_filter.given /\ rd_process \notin rd_filter.ids) =>
          /\ rd_readers = <<>>
          /\ rd_result = IF rd_check_only THEN "False" ELSE "None"
    /\ filter_process_ids.given =>
          /\ \A i \in 1..Len(datasets) :
                datasets[i].process_id \in filter_process_ids.ids
          /\ \A i \in 1..Len(dataset) :
                dataset[i].process_id \in filter_process_ids.ids
          /\ \A i \in 1..Len(reader_calls) :
                reader_calls[i].dataset.process_id \in filter_process_ids.ids
    /\ filter_process_ids = Allow(MicrobiomeProcessIds) =>
          \A i \in 1..Len(datasets) :
              LET p == datasets[i].process_id
              IN  /\ p # "mudata-h5mu"
                  /\ p \notin DifferentialAbundanceIds
                  /\ p # "differential-abundance-other"
                  /\ \A c \in 1..Len(reader_calls) :
                        reader_calls[c].reader \notin {"mudata", "differential_abundance"}

\* C6 witness: on the microbiome load page a project that holds a MuData
\* dataset and a differently processed one, of which the other one was read.
C6_Witness ==
    /\ filter_process_ids = Allow(MicrobiomeProcessIds)
    /\ \E i \in 1..Len(listed) : listed[i].process_id = "mudata-h5mu"
    /\ Len(datasets) < Len(listed)
    /\ reader_calls # <<>>

\* the reader the code configures for each process id it knows
C7_Configured ==
    [p \in {"mudata-h5mu"} \cup MicrobiomeProcessIds \cup DifferentialAbundanceIds |->
        CASE p = "mudata-h5mu" -> "mudata"
          [] p = "ingest_biom" -> "biom"
          [] p = "process-nf-core-ampliseq-2-4-0" -> "ampliseq"
          [] p = "curated_metagenomic_data" -> "curatedMetagenomicData"
          [] p = "process-hutch-metaphlan-paired-1-0" -> "metaphlan"
          [] p = "hutch-gig-map-align-pangenome-1-0" -> "gig_map"
          [] p = "hutch-sourmash-tax" -> "sourmash"
          [] OTHER -> "differential_abundance"]

\* C7: in _read_dataset the process_id is a dispatch key only. Under check_only
\* the result is True exactly when the process_id passes the allowlist (if any)
\* and has a configured reader, False otherwise, and no reader is called;
\* without check_only exactly one reader, the one configured for the
\* process_id, is called once, and a process_id without a configured reader
\* (or outside the allowlist) yields None with no reader called.
C7_DispatchKey ==
    rd_pc = "returned" =>
        LET allowed == ~rd_filter.given \/ rd_process \in rd_filter.ids
            known == rd_process \in DOMAIN C7_Configured
        IN  IF rd_check_only
            THEN /\ rd_readers = <<>>
                 /\ rd_result \in {"True", "False"}
                 /\ rd_result = "True" <=> (allowed /\ known)
            ELSE IF allowed /\ known
                 THEN rd_readers = <<C7_Configured[rd_process]>>
                 ELSE rd_readers = <<>> /\ rd_result = "None"

\* C7 witness: a sourmash dataset read through an allowlist that holds it.
C7_Witness ==
    /\ rd_pc = "returned"
    /\ ~rd_check_only
    /\ rd_filter.given
    /\ rd_process = "hutch-sourmash-tax"
    /\ rd_readers = <<"sourmash">>
    /\ rd_result = "MuData"

\* C8: in save_to_cirro project.upload_dataset is called at most once per
\* invocation; if the call raises, the exception is reported with
\* st.exception, the function returns, and neither the 'Wrote ...' message nor
\* the permalink is shown.
C8_UploadOnceNoRetry ==
    flow = "save" =>
        /\ Occurrences(log, "upload_dataset") <= 1
        /\ Logged("raised") =>
              /\ log[Len(log)] = "st.exception"
              /\ log[Len(log) - 1] = "raised"
              /\ pg_pc = "done"
              /\ ~Logged("wrote")
              /\ ~Logged("permalink")

\* C8 witness: a save whose upload raised.
C8_Witness ==
    /\ flow = "save"
    /\ Logged("upload_dataset")
    /\ Logged("raised")

\* C10: in load_from_cirro a dataset is read only with a Cirro client in the
\* session, a project selected and a dataset selected, and, when show_link is
\* true and the dataset is not the one named by the query string, only after
\* the Load button was pressed; set_mdata, set_mdata_hash and the switch to the
\* views page happen only after a read that returned a MuData, never after one
\* that returned None.
C10_ReadAndSetOrder ==
    /\ (pg_pc = "read" \/ Logged("read") \/ reader_calls # <<>> \/ mdata # "unread") =>
          /\ flow = "load"
          /\ session_cirro
          /\ project \in Projects
          /\ Len(dataset) = 1
          /\ (show_link /\ query_dataset # {dataset[1].id}) =>
                (load_pressed /\ Logged("button") /\ Before("button", "read"))
    /\ reader_calls # <<>> => Logged("read")
    /\ \A e \in {"set_mdata", "set_mdata_hash", "switch_page"} :
          (Logged(e) \/ pg_pc \in {"set", "switched"}) =>
              /\ mdata = "MuData"
              /\ Logged("read")
              /\ Before("read", e)
    /\ mdata = "None" =>
          /\ pg_pc \notin {"set", "switched"}
          /\ ~Logged("set_mdata") /\ ~Logged("set_mdata_hash") /\ ~Logged("switch_page")

\* C10 witness: a dataset picked from the table, Load pressed, the MuData read
\* and the page switched.
C10_Witness ==
    /\ pg_pc = "switched"
    /\ show_link
    /\ load_pressed
    /\ query_dataset = {}
    /\ Logged("switch_page")

\* C11: in save_to_cirro the temporary file is written and
\* project.upload_dataset is called only when a Cirro client is present, a
\* project is selected, the name entered is non-empty, Save was pressed and
\* an active dataset exists.  A script run that reaches the name check with
\* an empty name shows "Name is required", one that reaches get_mdata with no
\* active dataset shows "No dataset to save", and a run that showed either
\* error has ended with nothing written and nothing uploaded.
C11_UploadGuarded ==
    LET written == Logged("file_written")
        uploaded == Logged("upload_dataset")
        no_name == Logged("error: Name is required")
        no_data == Logged("error: No dataset to save")
    IN  /\ (pg_pc = "upload" \/ written \/ uploaded) =>
              /\ flow = "save"
              /\ session_cirro
              /\ project \in Projects
              /\ name # ""
              /\ Logged("button: pressed")
              /\ active_mdata
        /\ (flow = "save" /\ Logged("text_input") /\ name = "") => no_name
        /\ (flow = "save" /\ Logged("button: pressed") /\ ~active_mdata) => no_data
        /\ no_name => (name = "" /\ pg_pc = "done" /\ ~written /\ ~uploaded)
        /\ no_data => (~active_mdata /\ pg_pc = "done" /\ ~written /\ ~uploaded)

\* C11 witness: upload_dataset has been called, in a script run with a
\* client, a project, a name, the Save button pressed and an active dataset.
C11_Witness ==
    /\ flow = "save"
    /\ Logged("upload_dataset")
    /\ Logged("button: pressed")
    /\ name = "my dataset"
    /\ active_mdata
    /\ project = "p1"

\* the script run is past _select_dataset, which returned or raised
C12_Selected ==
    /\ flow = "load"
    /\ project \in Projects
    /\ pg_pc \notin {"project", "dataset"}
    /\ ~Logged("st.exception")

\* C12: once _select_dataset has run on the list project.list_datasets()
\* returned, its local list holds exactly the listed datasets for which
\* _read_dataset(check_only=True, filter_process_ids) is True, ordered by
\* created_at, newest first, and whatever it returns is one of them.  With
\* "dataset_id" in the query string it returns the passing dataset with that
\* id and shows no table; if no passing dataset has that id (the id is unknown
\* or its process is filtered out) it raises ValueError, shows no table and
\* returns nothing.  Without the parameter it shows the table when the list is
\* non-empty and returns the dataset at the selected row of the ordered list,
\* or None when no row is selected or when the list is empty.
C12_SelectsPassing ==
    C12_Selected =>
       LET passing == {i \in 1..Len(listed) :
                          ReadDataset(listed[i].process_id, TRUE, filter_process_ids).kind
                             = "True"}
           offered == {datasets[i] : i \in 1..Len(datasets)}
       IN  /\ offered = {listed[i] : i \in passing}
           /\ Len(datasets) = Cardinality(passing)
           /\ \A i, j \in 1..Len(datasets) :
                 i < j => datasets[i].created_at >= datasets[j].created_at
           /\ dataset # <<>> => dataset[1] \in offered
           /\ query_dataset # {} =>
                 /\ ~Logged("table")
                 /\ selected_rows = <<>>
                 /\ IF \E d \in offered : d.id \in query_dataset
                    THEN /\ dataset # <<>>
                         /\ dataset[1].id \in query_dataset
                         /\ ~Logged("ValueError")
                    ELSE /\ dataset = <<>>
                         /\ Logged("ValueError")
                         /\ pg_pc = "aborted"
           /\ query_dataset = {} =>
                 /\ ~Logged("ValueError")
                 /\ IF datasets # <<>>
                    THEN /\ Logged("table")
                         /\ dataset = IF selected_rows = <<>> THEN <<>>
                                      ELSE <<datasets[selected_rows[1]]>>
                    ELSE /\ ~Logged("table")
                         /\ Logged("No datasets available")
                         /\ selected_rows = <<>>
                         /\ dataset = <<>>

\* C12 witness: the query string names a dataset that is in the project but
\* whose process the allowlist filters out, other datasets pass, and
\* _select_dataset has raised ValueError.
C12_Witness ==
    /\ C12_Selected
    /\ filter_process_ids.given
    /\ datasets # <<>>
    /\ \E i \in 1..Len(listed) :
          /\ listed[i].id \in query_dataset
          /\ ReadDataset(listed[i].process_id, TRUE, NoFilter).kind = "True"
          /\ \A j \in 1..Len(datasets) : datasets[j] # listed[i]
    /\ Logged("ValueError")
    /\ pg_pc = "aborted"

(***************************************************************************)
(* Claims about _cirro_login                                               *)
(***************************************************************************)
\* C9: each _cirro_login call starts exactly one thread, and st.rerun is
\* reached only after that thread has ended (it is joined first): at the
\* rerun, in every interleaving, the thread is not alive, and if it completed
\* without error then 'Cirro-auth_info', 'Cirro-client' and 'Cirro' are all
\* set in the session state.
C9_RerunAfterThread ==
    /\ lg_main = "start" => threads_started = 0
    /\ lg_main \in {"getvalue", "while", "write", "join", "rerun"} => threads_started = 1
    /\ (lg_main = "rerun" \/ (lg_main = "idle" /\ logins > 0)) =>
          /\ threads_started = 1
          /\ ~ThreadAlive
          /\ lg_thread = "finished" => (sess_auth_info /\ sess_client /\ sess_cirro)

\* C9 witness: st.rerun about to be called after a login that succeeded while
\* the prompt was on display.
C9_Witness ==
    /\ lg_main = "rerun"
    /\ lg_thread = "finished"
    /\ login_string = LoginPrompt
    /\ sess_cirro


\* C13: in every interleaving of the polling loop with the login thread, if
\* the thread has written the login prompt to auth_io by the time the loop
\* exits, then login_string is that prompt when the loop exits, and it is
\* what container.write receives: the loop does not exit with an empty
\* login_string while auth_io is non-empty.
C13_PromptReachesContainer ==
    /\ (lg_main = "write" /\ auth_io # "") => login_string = auth_io
    /\ (lg_main = "join" /\ auth_io # "") => container = <<auth_io>>

=============================================================================
